---- MODULE Spec2Model ----
(***************************************************************************)
(* Scope guards of hostinger/restic.                                       *)
(*                                                                         *)
(*   RejectSymlinksOutsideScope  backup-side reject function               *)
(*   SymlinkScopeNodeFilter      restore-side node filter                  *)
(*   deviceMap.IsAllowed         device boundary lookup                    *)
(*                                                                         *)
(* A path is a record [abs, comps]: comps is the sequence of its           *)
(* components and a component is a sequence of tokens.  The string form of *)
(* a path (Str) is the sequence of tokens with "/" between components, so  *)
(* that strings.HasPrefix is a plain prefix test on sequences: component   *)
(* <<"foodir","2">> is the name "foodir2", which extends "foodir" as a     *)
(* string without being the same directory.  No token is a string prefix   *)
(* of another one, so the token-level prefix test agrees with the          *)
(* byte-level one on every string of the model.                            *)
(***************************************************************************)
EXTENDS Integers, Sequences, FiniteSets, TLC

VARIABLES scope, disk, last, logs, rejections, created, registry, devLast

vars == <<scope, disk, last, logs, rejections, created, registry, devLast>>

(***************************************************************************)
(* Bounds of the model.                                                    *)
(***************************************************************************)
\* symlinks followed by one resolution before it gives up
MaxLinks == 3
\* rejections counted before the guards are no longer called
MaxLog == 1
\* entries the restore walker creates
MaxCreated == 1

(***************************************************************************)
(* Paths and the path/filepath functions the guards call.                  *)
(***************************************************************************)
Dot == <<".">>
DotDot == <<"..">>

AbsPath(cs) == [abs |-> TRUE, comps |-> cs]
RelPath(cs) == [abs |-> FALSE, comps |-> cs]

RECURSIVE CleanComps(_, _, _)
CleanComps(abs, rest, out) ==
  IF rest = <<>> THEN out
  ELSE LET c == Head(rest) IN
       IF c = Dot THEN CleanComps(abs, Tail(rest), out)
       ELSE IF c = DotDot
            THEN IF out # <<>> /\ out[Len(out)] # DotDot
                 THEN CleanComps(abs, Tail(rest), SubSeq(out, 1, Len(out) - 1))
                 ELSE IF abs THEN CleanComps(abs, Tail(rest), out)
                      ELSE CleanComps(abs, Tail(rest), Append(out, DotDot))
            ELSE CleanComps(abs, Tail(rest), Append(out, c))

\* filepath.Clean: "." dropped, "x/.." collapsed, "/.." is "/", leading ".." of
\* a relative path kept
Clean(p) == [abs |-> p.abs, comps |-> CleanComps(p.abs, p.comps, <<>>)]

\* filepath.IsAbs
IsAbs(p) == p.abs

\* filepath.Join(a, b) == Clean(a + "/" + b)
Join(a, b) == Clean([abs |-> a.abs, comps |-> a.comps \o b.comps])

\* filepath.Dir of a clean absolute path; Dir("/") is "/"
Dir(p) ==
  IF p.comps = <<>> THEN p
  ELSE [abs |-> p.abs, comps |-> SubSeq(p.comps, 1, Len(p.comps) - 1)]

\* filepath.Base of a clean absolute path, as a path to join; Base("/") is "/"
Base(p) ==
  IF p.comps = <<>> THEN p
  ELSE RelPath(<<p.comps[Len(p.comps)]>>)

RECURSIVE JoinSep(_)
JoinSep(cs) ==
  IF cs = <<>> THEN <<>> ELSE <<"/">> \o Head(cs) \o JoinSep(Tail(cs))

\* the string form of a clean path
Str(p) ==
  IF p.abs
  THEN IF p.comps = <<>> THEN <<"/">> ELSE JoinSep(p.comps)
  ELSE IF p.comps = <<>> THEN <<".">> ELSE Tail(JoinSep(p.comps))

RECURSIVE HasPrefix(_, _)
\* strings.HasPrefix(s, prefix)
HasPrefix(s, prefix) ==
  IF prefix = <<>> THEN TRUE
  ELSE IF s = <<>> THEN FALSE
  ELSE Head(s) = Head(prefix) /\ HasPrefix(Tail(s), Tail(prefix))

(***************************************************************************)
(* The filesystem: existing absolute physical paths (component sequences)  *)
(* to entries [Type, LinkTarget].                                          *)
(***************************************************************************)
NoTarget == RelPath(<<>>)

DirNode == [Type |-> "dir", LinkTarget |-> NoTarget]
FileNode == [Type |-> "file", LinkTarget |-> NoTarget]
SymlinkNode(target) == [Type |-> "symlink", LinkTarget |-> target]

NoErr == ""

RECURSIVE walkSymlinks(_, _, _, _)
\* dest: the resolved physical prefix; rest: the components still to walk
walkSymlinks(d, dest, rest, links) ==
  IF rest = <<>> THEN [err |-> NoErr, path |-> AbsPath(dest)]
  ELSE LET c == Head(rest)
           p == Append(dest, c)
       IN
       IF c = Dot THEN walkSymlinks(d, dest, Tail(rest), links)
       ELSE IF c = DotDot
            THEN walkSymlinks(d, IF dest = <<>> THEN dest
                                 ELSE SubSeq(dest, 1, Len(dest) - 1),
                              Tail(rest), links)
       ELSE IF p \notin DOMAIN d THEN [err |-> "ENOENT", path |-> AbsPath(p)]
       ELSE IF d[p].Type = "symlink"
            THEN IF links >= MaxLinks
                 THEN [err |-> "ELOOP", path |-> AbsPath(p)]
                 ELSE walkSymlinks(d,
                                   IF d[p].LinkTarget.abs THEN <<>> ELSE dest,
                                   d[p].LinkTarget.comps \o Tail(rest),
                                   links + 1)
       ELSE IF d[p].Type # "dir" /\ Tail(rest) # <<>>
            THEN [err |-> "ENOTDIR", path |-> AbsPath(p)]
       ELSE walkSymlinks(d, p, Tail(rest), links)

\* filepath.EvalSymlinks(path) on filesystem d: [err, path]
EvalSymlinks(d, path) == walkSymlinks(d, <<>>, path.comps, 0)

\* fs.Lstat(path): the kernel follows the symlinks of every component but the
\* last one; only the error is used by the caller
Lstat(d, path) ==
  IF path.comps = <<>> THEN NoErr
  ELSE LET parent == EvalSymlinks(d, Dir(path)) IN
       IF parent.err # NoErr THEN parent.err
       ELSE IF d[parent.path.comps].Type # "dir" THEN "ENOTDIR"
       ELSE IF Append(parent.path.comps, path.comps[Len(path.comps)]) \in DOMAIN d
            THEN NoErr
            ELSE "ENOENT"

\* os.IsNotExist(err)
IsNotExist(err) == err = "ENOENT"

(***************************************************************************)
(* RejectSymlinksOutsideScope (backup).                                    *)
(***************************************************************************)
\* the working directory filepath.Abs resolves a relative scope against
Cwd == AbsPath(<< <<"t">> >>)

\* the scope path the returned closure holds: made absolute, never resolved
ScopePath(scopePath) ==
  IF ~IsAbs(scopePath) THEN Join(Cwd, scopePath) ELSE scopePath

\* the closure with the two-sided prefix test of the restore side
RejectFnBidirectional(d, scopePath, path) ==
  LET target == EvalSymlinks(d, path) IN
  IF target.err # NoErr
  THEN [excluded |-> TRUE, logged |-> 1]
  ELSE IF /\ ~HasPrefix(Str(target.path), Str(scopePath))
          /\ ~HasPrefix(Str(scopePath), Str(target.path))
       THEN [excluded |-> TRUE, logged |-> 1]
       ELSE [excluded |-> FALSE, logged |-> 0]

\* the closure: [excluded, logged] for path on filesystem d
RejectFn(d, scopePath, path) ==
  LET target == EvalSymlinks(d, path) IN
  IF target.err # NoErr
  THEN [excluded |-> TRUE, logged |-> 1]
  ELSE IF ~HasPrefix(Str(target.path), Str(scopePath))
       THEN [excluded |-> TRUE, logged |-> 1]
       ELSE [excluded |-> FALSE, logged |-> 0]

(***************************************************************************)
(* SymlinkScopeNodeFilter (restore).                                       *)
(***************************************************************************)
\* lines 18-35 going on with the unresolved directory when resolution fails
DstDirStepFailOpen(d, scopePath, item) ==
  LET dstdir == Dir(item)
      err == Lstat(d, dstdir)
  IN
  IF err = NoErr \/ ~IsNotExist(err)
  THEN LET evaldstdir == EvalSymlinks(d, dstdir) IN
       IF evaldstdir.err # NoErr
       THEN [rejected |-> FALSE, logged |-> 0, dstdir |-> dstdir]
       ELSE IF /\ evaldstdir.path # dstdir
               /\ ~HasPrefix(Str(evaldstdir.path), Str(scopePath))
               /\ ~HasPrefix(Str(scopePath), Str(evaldstdir.path))
            THEN [rejected |-> TRUE, logged |-> 1, dstdir |-> dstdir]
            ELSE [rejected |-> FALSE, logged |-> 0, dstdir |-> evaldstdir.path]
  ELSE [rejected |-> FALSE, logged |-> 0, dstdir |-> dstdir]

\* lines 18-35 with the one-sided prefix test on the resolved directory
DstDirStepOneWay(d, scopePath, item) ==
  LET dstdir == Dir(item)
      err == Lstat(d, dstdir)
  IN
  IF err = NoErr \/ ~IsNotExist(err)
  THEN LET evaldstdir == EvalSymlinks(d, dstdir) IN
       IF evaldstdir.err # NoErr
       THEN [rejected |-> TRUE, logged |-> 0, dstdir |-> dstdir]
       ELSE IF /\ evaldstdir.path # dstdir
               /\ ~HasPrefix(Str(evaldstdir.path), Str(scopePath))
            THEN [rejected |-> TRUE, logged |-> 1, dstdir |-> dstdir]
            ELSE [rejected |-> FALSE, logged |-> 0, dstdir |-> evaldstdir.path]
  ELSE [rejected |-> FALSE, logged |-> 0, dstdir |-> dstdir]

\* lines 18-35 without the assignment of line 34: the directory stays lexical
DstDirStepKeepLexical(d, scopePath, item) ==
  LET dstdir == Dir(item)
      err == Lstat(d, dstdir)
  IN
  IF err = NoErr \/ ~IsNotExist(err)
  THEN LET evaldstdir == EvalSymlinks(d, dstdir) IN
       IF evaldstdir.err # NoErr
       THEN [rejected |-> TRUE, logged |-> 0, dstdir |-> dstdir]
       ELSE IF /\ evaldstdir.path # dstdir
               /\ ~HasPrefix(Str(evaldstdir.path), Str(scopePath))
               /\ ~HasPrefix(Str(scopePath), Str(evaldstdir.path))
            THEN [rejected |-> TRUE, logged |-> 1, dstdir |-> dstdir]
            ELSE [rejected |-> FALSE, logged |-> 0, dstdir |-> dstdir]
  ELSE [rejected |-> FALSE, logged |-> 0, dstdir |-> dstdir]

\* lines 18-35: the destination directory the rest of the call works with
DstDirStep(d, scopePath, item) ==
  LET dstdir == Dir(item)
      err == Lstat(d, dstdir)
  IN
  IF err = NoErr \/ ~IsNotExist(err)
  THEN LET evaldstdir == EvalSymlinks(d, dstdir) IN
       IF evaldstdir.err # NoErr
       THEN [rejected |-> TRUE, logged |-> 0, dstdir |-> dstdir]
       ELSE IF /\ evaldstdir.path # dstdir
               /\ ~HasPrefix(Str(evaldstdir.path), Str(scopePath))
               /\ ~HasPrefix(Str(scopePath), Str(evaldstdir.path))
            THEN [rejected |-> TRUE, logged |-> 1, dstdir |-> dstdir]
            ELSE [rejected |-> FALSE, logged |-> 0, dstdir |-> evaldstdir.path]
  ELSE [rejected |-> FALSE, logged |-> 0, dstdir |-> dstdir]

\* lines 53-62: the target a symlink node is checked with
SymlinkTarget(dstdir, node) ==
  LET target == Clean(node.LinkTarget) IN
  IF ~IsAbs(target) THEN Join(dstdir, target) ELSE target

\* lines 53-71: the decision once the destination directory is known
TargetStep(scopePath, dstdir, item, node) ==
  IF node.Type = "symlink"
  THEN IF ~HasPrefix(Str(SymlinkTarget(dstdir, node)), Str(scopePath))
       THEN [allowed |-> FALSE, logged |-> 1]
       ELSE [allowed |-> TRUE, logged |-> 0]
  ELSE LET target == Join(dstdir, Base(item)) IN
       IF /\ ~HasPrefix(Str(target), Str(scopePath))
          /\ ~HasPrefix(Str(scopePath), Str(target))
       THEN [allowed |-> FALSE, logged |-> 1]
       ELSE [allowed |-> TRUE, logged |-> 0]

\* the closure: [allowed, logged] for (item, node) on filesystem d
NodeFilterFn(d, scopePath, item, node) ==
  LET s == DstDirStep(d, scopePath, item) IN
  IF s.rejected
  THEN [allowed |-> FALSE, logged |-> s.logged]
  ELSE TargetStep(scopePath, s.dstdir, item, node)

(***************************************************************************)
(* deviceMap.IsAllowed: the registry maps registered paths (component      *)
(* sequences) to device ids.                                               *)
(***************************************************************************)
NoKey == [found |-> FALSE, key |-> <<>>]

\* the scan of the lookup: the longest registered key seen so far that is a
\* string prefix of item
RECURSIVE longestKey(_, _, _)
longestKey(keys, item, best) ==
  IF keys = {} THEN best
  ELSE LET k == CHOOSE k \in keys : TRUE IN
       longestKey(keys \ {k}, item,
                  IF /\ HasPrefix(Str(item), Str(AbsPath(k)))
                     /\ (~best.found \/ Len(Str(AbsPath(k))) > Len(Str(AbsPath(best.key))))
                  THEN [found |-> TRUE, key |-> k]
                  ELSE best)

\* the lookup stopping at the first registered ancestor from the root
IsAllowedFirstMatch(reg, item, deviceID) ==
  LET k == CHOOSE k \in DOMAIN reg :
             /\ HasPrefix(Str(item), Str(AbsPath(k)))
             /\ \A k2 \in DOMAIN reg :
                  HasPrefix(Str(item), Str(AbsPath(k2))) => Len(k) <= Len(k2)
  IN [allowed |-> reg[k] = deviceID, err |-> NoErr]

\* IsAllowed(item, deviceID): [allowed, err]
IsAllowed(reg, item, deviceID) ==
  LET m == longestKey(DOMAIN reg, item, NoKey) IN
  IF ~m.found THEN [allowed |-> FALSE, err |-> "not found"]
  ELSE [allowed |-> reg[m.key] = deviceID, err |-> NoErr]

usr == <<"usr">>
local == <<"local">>
foobar == <<"foobar">>

\* the registry of TestDeviceMap
TestRegistry == ( <<>> :> 1 ) @@ ( <<usr, local>> :> 5 )

\* the registries the walker is built with: the root is always registered
Registries ==
  UNION { [ks \cup {<<>>} -> {1, 5}] : ks \in SUBSET { <<usr>>, <<usr, local>> } }

\* the queries of TestDeviceMap, and /usr/local2, whose name extends /usr/local
DeviceItems ==
  { AbsPath(<< <<"root">> >>),
    AbsPath(<<usr>>),
    AbsPath(<< <<"proc">> >>),
    AbsPath(<<usr, <<"share">> >>),
    AbsPath(<<usr, local>>),
    AbsPath(<<usr, <<"local", "2">> >>),
    AbsPath(<<usr, local, foobar>>),
    AbsPath(<<usr, local, foobar, <<"submount">> >>),
    AbsPath(<<usr, local, foobar, <<"outhersubmount">> >>) }

DeviceIDs == {1, 2, 3, 5, 23}

DevIdle == [op |-> "idle", item |-> AbsPath(<<>>), deviceID |-> 0, allowed |-> FALSE, err |-> NoErr]

(***************************************************************************)
(* The trees the guards run on.  Names are those of the tests' tree;       *)
(* foodir2 is the sibling whose name extends foodir.                       *)
(***************************************************************************)
tempDir == <<"t">>
foodir == <<"foodir">>
foodir2 == <<"foodir", "2">>
x == <<"x">>
new == <<"new">>

\* a destination tree without symlinks
CleanDisk ==
  ( <<>> :> DirNode ) @@
  ( <<tempDir>> :> DirNode ) @@
  ( <<tempDir, foodir>> :> DirNode ) @@
  ( <<tempDir, foodir, x>> :> FileNode ) @@
  ( <<tempDir, foodir2>> :> DirNode ) @@
  ( <<tempDir, foodir2, x>> :> FileNode )

\* the tree with symlinks in it: 1234 -> .., foodir/outsidefoo3 -> ..,
\* foodir/sibling -> /t/foodir2, dangling -> missing
TestDisk ==
  CleanDisk @@
  ( <<tempDir, <<"1234">> >> :> SymlinkNode(RelPath(<<DotDot>>)) ) @@
  ( <<tempDir, foodir, <<"outsidefoo3">> >> :> SymlinkNode(RelPath(<<DotDot>>)) ) @@
  ( <<tempDir, foodir, <<"sibling">> >> :> SymlinkNode(AbsPath(<<tempDir, foodir2>>)) ) @@
  ( <<tempDir, <<"dangling">> >> :> SymlinkNode(RelPath(<< <<"missing">> >>)) )

\* the scope arguments the guards are constructed with
ScopeArgs ==
  { AbsPath(<<tempDir, foodir>>), RelPath(<<foodir>>), AbsPath(<<tempDir, foodir2>>) }

\* the paths the backup walker hands to the reject function
BackupPaths ==
  { AbsPath(<<tempDir>>),
    AbsPath(<<tempDir, foodir>>),
    AbsPath(<<tempDir, foodir, x>>),
    AbsPath(<<tempDir, foodir2, x>>),
    AbsPath(<<tempDir, <<"1234">> >>),
    AbsPath(<<tempDir, foodir, <<"outsidefoo3">> >>),
    AbsPath(<<tempDir, foodir, <<"sibling">>, x>>),
    AbsPath(<<tempDir, <<"dangling">> >>),
    AbsPath(<<tempDir, foodir, new>>) }

\* the items the restore walker hands to the filter
RestoreItems ==
  { AbsPath(<<tempDir, foodir>>),
    AbsPath(<<tempDir, new>>),
    AbsPath(<<tempDir, foodir, new>>),
    AbsPath(<<tempDir, foodir, new, new>>),
    AbsPath(<<tempDir, foodir2, new>>),
    AbsPath(<<tempDir, foodir, <<"sibling">>, new>>),
    AbsPath(<<tempDir, foodir, <<"outsidefoo3">>, foodir>>),
    AbsPath(<<tempDir, <<"dangling">>, new>>),
    AbsPath(<<tempDir, foodir, x, new, new>>) }

\* the link targets of the snapshot's symlink nodes
LinkTargets ==
  { RelPath(<<Dot, DotDot>>),
    RelPath(<<x>>),
    AbsPath(<<tempDir, foodir, x>>),
    AbsPath(<<tempDir, foodir2>>) }

RestoreNodes == {DirNode, FileNode} \cup { SymlinkNode(l) : l \in LinkTargets }

NoNode == [Type |-> "none", LinkTarget |-> NoTarget]

\* no guard call whose decision the walker still holds
Idle ==
  [op |-> "idle", path |-> AbsPath(<<>>), node |-> NoNode,
   rejected |-> FALSE, repeated |-> FALSE]

SameCall(call, op, path, node) ==
  call.op = op /\ call.path = path /\ call.node = node

(***************************************************************************)
(* The state machine: the walkers calling the guards.                      *)
(***************************************************************************)
Init ==
  /\ \E s \in ScopeArgs : scope = ScopePath(s)
  /\ disk = TestDisk
  /\ last = Idle
  /\ logs = 0
  /\ rejections = 0
  /\ created = {}
  /\ registry = TestRegistry
  /\ devLast = DevIdle

\* the backup walker calls the reject function on path
BackupRejectCall(path) ==
  LET r == RejectFn(disk, scope, path) IN
  /\ r.excluded => rejections < MaxLog
  /\ last' = [op |-> "backup", path |-> path, node |-> NoNode,
              rejected |-> r.excluded,
              repeated |-> SameCall(last, "backup", path, NoNode)]
  /\ logs' = logs + r.logged
  /\ rejections' = rejections + (IF r.excluded THEN 1 ELSE 0)
  /\ UNCHANGED <<scope, disk, created, registry, devLast>>

\* the filter call making the missing destination directory before it looks
RestoreFilterCallMkdir(item, node) ==
  LET dstdir == Dir(item)
      made == IF /\ IsNotExist(Lstat(disk, dstdir))
                 /\ EvalSymlinks(disk, Dir(dstdir)).err = NoErr
                 /\ EvalSymlinks(disk, Dir(dstdir)).path = Dir(dstdir)
              THEN (dstdir.comps :> DirNode) @@ disk
              ELSE disk
      r == NodeFilterFn(made, scope, item, node)
  IN
  /\ ~r.allowed => rejections < MaxLog
  /\ last' = [op |-> "restore", path |-> item, node |-> node,
              rejected |-> ~r.allowed,
              repeated |-> SameCall(last, "restore", item, node)]
  /\ logs' = logs + r.logged
  /\ rejections' = rejections + (IF r.allowed THEN 0 ELSE 1)
  /\ disk' = made
  /\ UNCHANGED <<scope, created, registry, devLast>>

\* the restore walker calls the filter on (item, node)
RestoreFilterCall(item, node) ==
  LET r == NodeFilterFn(disk, scope, item, node) IN
  /\ ~r.allowed => rejections < MaxLog
  /\ last' = [op |-> "restore", path |-> item, node |-> node,
              rejected |-> ~r.allowed,
              repeated |-> SameCall(last, "restore", item, node)]
  /\ logs' = logs + r.logged
  /\ rejections' = rejections + (IF r.allowed THEN 0 ELSE 1)
  /\ UNCHANGED <<scope, disk, created, registry, devLast>>

\* where the kernel puts an entry created at item
Location(d, item) ==
  LET parent == EvalSymlinks(d, Dir(item)) IN
  IF parent.err # NoErr THEN parent
  ELSE IF d[parent.path.comps].Type # "dir"
       THEN [err |-> "ENOTDIR", path |-> parent.path]
       ELSE [err |-> NoErr, path |-> Join(parent.path, Base(item))]

\* the restore walker creates the entry the filter allowed
Create ==
  /\ last.op = "restore"
  /\ ~last.rejected
  /\ Cardinality(created) < MaxCreated
  /\ LET loc == Location(disk, last.path) IN
     /\ loc.err = NoErr
     /\ loc.path.comps \notin DOMAIN disk
     /\ disk' = (loc.path.comps :> last.node) @@ disk
     /\ created' = created \cup {[loc |-> loc.path, node |-> last.node]}
  /\ last' = Idle
  /\ UNCHANGED <<scope, logs, rejections, registry, devLast>>

Next ==
  \/ \E path \in BackupPaths : BackupRejectCall(path)
  \/ \E item \in RestoreItems, node \in RestoreNodes : RestoreFilterCall(item, node)
  \/ Create

Spec == Init /\ [][Next]_vars

InitClean ==
  /\ \E s \in ScopeArgs : scope = ScopePath(s)
  /\ disk = CleanDisk
  /\ last = Idle
  /\ logs = 0
  /\ rejections = 0
  /\ created = {}
  /\ registry = TestRegistry
  /\ devLast = DevIdle

\* restores into a destination tree that holds no symlink
SpecClean == InitClean /\ [][Next]_vars

\* the walker asks the device map whether it may descend into item
DeviceQuery(item, deviceID) ==
  LET r == IsAllowed(registry, item, deviceID) IN
  /\ devLast' = [op |-> "query", item |-> item, deviceID |-> deviceID,
                 allowed |-> r.allowed, err |-> r.err]
  /\ UNCHANGED <<scope, disk, last, logs, rejections, created, registry>>

InitDevice ==
  /\ scope = AbsPath(<<tempDir, foodir>>)
  /\ disk = CleanDisk
  /\ last = Idle
  /\ logs = 0
  /\ rejections = 0
  /\ created = {}
  /\ registry \in Registries
  /\ devLast = DevIdle

NextDevice == \E item \in DeviceItems, deviceID \in DeviceIDs : DeviceQuery(item, deviceID)

\* the device map alone, over every registry
SpecDevice == InitDevice /\ [][NextDevice]_vars

(***************************************************************************)
(* Directory containment, as the claims mean it: on components.            *)
(***************************************************************************)
IsPrefixSeq(a, b) ==
  /\ Len(a) <= Len(b)
  /\ \A i \in 1..Len(a) : a[i] = b[i]

InsideOrEqual(p, root) == IsPrefixSeq(root.comps, p.comps)
StrictlyInside(p, root) == InsideOrEqual(p, root) /\ p # root
Outside(p, root) == ~InsideOrEqual(p, root)
ProperAncestor(p, root) == IsPrefixSeq(p.comps, root.comps) /\ p # root

\* the resolution of the path of the last backup call
LastResolved == EvalSymlinks(disk, last.path)
\* the resolution of the destination directory of the last restore call
LastDstDir == Dir(last.path)
LastEvalDstDir == EvalSymlinks(disk, LastDstDir)
\* the restore call attempted a resolution of its destination directory
LastResolutionAttempted == ~IsNotExist(Lstat(disk, LastDstDir))

(***************************************************************************)
(* C1: the backup reject function includes every path whose resolved form  *)
(* lies strictly inside the scope root and excludes every path whose       *)
(* resolved form lies outside it, inside and outside being directory       *)
(* containment (/t/foodir2/x is outside /t/foodir).                        *)
(***************************************************************************)
C1_BackupDirectoryContainment ==
  (last.op = "backup" /\ LastResolved.err = NoErr) =>
    /\ StrictlyInside(LastResolved.path, scope) => ~last.rejected
    /\ Outside(LastResolved.path, scope) => last.rejected

(***************************************************************************)
(* C2: for a symlink node whose destination directory was accepted, the    *)
(* restore filter allows the node iff its normalized target, joined to the *)
(* effective destination directory when relative, is inside scope.         *)
(***************************************************************************)
C2_SymlinkTargetInsideScope ==
  (last.op = "restore" /\ last.node.Type = "symlink") =>
    LET s == DstDirStep(disk, scope, last.path) IN
    ~s.rejected =>
      (~last.rejected <=> InsideOrEqual(SymlinkTarget(s.dstdir, last.node), scope))

(***************************************************************************)
(* C3: an item whose parent directory exists and resolves, through a       *)
(* symlink, to a directory outside scope is rejected by the restore        *)
(* filter, whatever its kind.  Stated here for the resolutions that are    *)
(* neither inside scope nor an ancestor of it, the part of the claim the   *)
(* two-sided test of line 28 does not touch.                               *)
(***************************************************************************)
C3_SymlinkedAncestorRejected ==
  ( /\ last.op = "restore"
    /\ Lstat(disk, LastDstDir) = NoErr
    /\ LastEvalDstDir.err = NoErr
    /\ LastEvalDstDir.path # LastDstDir
    /\ Outside(LastEvalDstDir.path, scope)
    /\ ~ProperAncestor(LastEvalDstDir.path, scope) ) => last.rejected

(***************************************************************************)
(* C4: IsAllowed answers true iff the device id equals the id recorded at  *)
(* the longest registered ancestor of the item (the longest registered key *)
(* that is a prefix of the item's path), and gives the seven answers of    *)
(* the claim on the registry {"/": 1, "/usr/local": 5}.                    *)
(***************************************************************************)
RegisteredAncestors(item) ==
  { k \in DOMAIN registry : IsPrefixSeq(Str(AbsPath(k)), Str(item)) }

NearestRegistered(item) ==
  CHOOSE k \in RegisteredAncestors(item) :
    \A k2 \in RegisteredAncestors(item) : IsPrefixSeq(Str(AbsPath(k2)), Str(AbsPath(k)))

ExpectedAllowed ==
  { <<AbsPath(<< <<"root">> >>), 1>>,
    <<AbsPath(<<usr>>), 1>>,
    <<AbsPath(<<usr, local, foobar>>), 5>> }

ExpectedRejected ==
  { <<AbsPath(<<usr>>), 3>>,
    <<AbsPath(<< <<"proc">> >>), 2>>,
    <<AbsPath(<<usr, local, foobar, <<"submount">> >>), 23>>,
    <<AbsPath(<<usr, local, foobar, <<"outhersubmount">> >>), 1>> }

C4_DeviceLongestAncestor ==
  devLast.op = "query" =>
    /\ devLast.err = NoErr
    /\ devLast.allowed <=> (registry[NearestRegistered(devLast.item)] = devLast.deviceID)
    /\ registry = TestRegistry =>
         /\ <<devLast.item, devLast.deviceID>> \in ExpectedAllowed => devLast.allowed
         /\ <<devLast.item, devLast.deviceID>> \in ExpectedRejected => ~devLast.allowed

C4_Witness ==
  /\ devLast.op = "query"
  /\ registry = TestRegistry
  /\ devLast.item = AbsPath(<<usr, local, foobar, <<"outhersubmount">> >>)
  /\ devLast.deviceID = 1
  /\ ~devLast.allowed

(***************************************************************************)
(* C5: fail-closed resolution: a backup call whose path does not resolve   *)
(* excludes it, and a restore call whose destination directory exists but  *)
(* does not resolve rejects the item.                                      *)
(***************************************************************************)
C5_FailClosed ==
  /\ (last.op = "backup" /\ LastResolved.err # NoErr) => last.rejected
  /\ ( /\ last.op = "restore"
       /\ LastResolutionAttempted
       /\ LastEvalDstDir.err # NoErr ) => last.rejected

C5_Witness ==
  /\ last.op = "restore"
  /\ last.node = SymlinkNode(AbsPath(<<tempDir, foodir, x>>))
  /\ LastResolutionAttempted
  /\ LastEvalDstDir.err # NoErr
  /\ last.rejected

(***************************************************************************)
(* C6: the number of diagnostic lines emitted equals the number of calls   *)
(* that returned a rejection.                                              *)
(***************************************************************************)
C6_OneLinePerRejection == logs = rejections

C8_ScopeRootAllowed ==
  /\ ( /\ last.op = "backup"
       /\ LastResolved.err = NoErr
       /\ LastResolved.path = scope ) => ~last.rejected
  /\ ( /\ last.op = "restore"
       /\ last.node.Type # "symlink"
       /\ \/ /\ ~LastResolutionAttempted
             /\ Join(LastDstDir, Base(last.path)) = scope
          \/ /\ LastResolutionAttempted
             /\ LastEvalDstDir.err = NoErr
             /\ Join(LastEvalDstDir.path, Base(last.path)) = scope ) => ~last.rejected

C8_Witness ==
  /\ last.op = "restore"
  /\ last.node.Type # "symlink"
  /\ LastResolutionAttempted
  /\ LastEvalDstDir.err = NoErr
  /\ LastEvalDstDir.path # LastDstDir
  /\ Join(LastEvalDstDir.path, Base(last.path)) = scope
  /\ ~last.rejected

(***************************************************************************)
(* C9: in a restore into a tree without symlinks, where only entries the   *)
(* filter allowed are created, every created file or directory lies inside *)
(* scope or is an ancestor directory of scope, and every created symlink   *)
(* has its target inside scope.                                            *)
(***************************************************************************)
C9_CreatedEntriesInScope ==
  \A e \in created :
    /\ e.node.Type # "symlink" =>
         (InsideOrEqual(e.loc, scope) \/ ProperAncestor(e.loc, scope))
    /\ e.node.Type = "symlink" =>
         InsideOrEqual(SymlinkTarget(Dir(e.loc), e.node), scope)

(***************************************************************************)
(* C10 as claimed: the backup reject function excludes a path iff its      *)
(* resolution fails or its resolved form is not prefix-compatible with the *)
(* scope root in either direction, so that a resolved path that is an      *)
(* ancestor of the scope root is included.                                 *)
(***************************************************************************)
C10_BidirectionalAsClaimed ==
  last.op = "backup" =>
    ( last.rejected <=>
        \/ LastResolved.err # NoErr
        \/ /\ ~IsPrefixSeq(Str(LastResolved.path), Str(scope))
           /\ ~IsPrefixSeq(Str(scope), Str(LastResolved.path)) )

(***************************************************************************)
(* C10 amended: the backup reject function excludes a path iff its         *)
(* resolution fails or the scope root is not a string prefix of its        *)
(* resolved form; a resolved path that is a proper ancestor of the scope   *)
(* root is excluded.                                                       *)
(***************************************************************************)
C10_OneDirectional ==
  last.op = "backup" =>
    /\ last.rejected <=>
         \/ LastResolved.err # NoErr
         \/ ~IsPrefixSeq(Str(scope), Str(LastResolved.path))
    /\ (LastResolved.err = NoErr /\ ProperAncestor(LastResolved.path, scope)) =>
         last.rejected

C10_Witness ==
  /\ last.op = "backup"
  /\ LastResolved.err = NoErr
  /\ ProperAncestor(LastResolved.path, scope)
  /\ last.rejected

(***************************************************************************)
(* The decision of the restore filter on the last call's item and node     *)
(* when dir is the effective destination directory: a symlink's target,    *)
(* joined to dir when relative, must start with scope; another entry's     *)
(* target join(dir, base(item)) must be prefix-compatible with scope.      *)
(***************************************************************************)
DecisionOn(dir) ==
  IF last.node.Type = "symlink"
  THEN LET t == Clean(last.node.LinkTarget)
           target == IF t.abs THEN t ELSE Clean(AbsPath(dir.comps \o t.comps))
       IN IsPrefixSeq(Str(scope), Str(target))
  ELSE LET target == Clean(AbsPath(dir.comps \o Base(last.path).comps)) IN
       \/ IsPrefixSeq(Str(scope), Str(target))
       \/ IsPrefixSeq(Str(target), Str(scope))

\* the resolved destination directory of the last restore call was rejected
LastDstDirRejected ==
  /\ LastEvalDstDir.path # LastDstDir
  /\ ~IsPrefixSeq(Str(scope), Str(LastEvalDstDir.path))
  /\ ~IsPrefixSeq(Str(LastEvalDstDir.path), Str(scope))

\* the first half of C11: an existing parent that resolves and is not rejected
\* is replaced by its resolution
ResolvedDirAdopted ==
  ( /\ last.op = "restore"
    /\ Lstat(disk, LastDstDir) = NoErr
    /\ LastEvalDstDir.err = NoErr
    /\ ~LastDstDirRejected ) =>
      (~last.rejected <=> DecisionOn(LastEvalDstDir.path))

(***************************************************************************)
(* C11 as claimed: an existing parent(item) that resolves and is not       *)
(* rejected is replaced by its resolution for the rest of the call, and    *)
(* whenever parent(item) does not exist on disk no resolution is attempted *)
(* and the decision is taken on the lexical parent(item).                  *)
(***************************************************************************)
C11_LexicalWheneverMissing ==
  /\ ResolvedDirAdopted
  /\ (last.op = "restore" /\ Lstat(disk, LastDstDir) # NoErr) =>
       (~last.rejected <=> DecisionOn(LastDstDir))

(***************************************************************************)
(* C11 amended: an existing parent(item) that resolves and is not rejected *)
(* is replaced by its resolution for the rest of the call; when Lstat      *)
(* reports parent(item) as not existing (os.IsNotExist) no resolution is   *)
(* attempted and the decision is taken on the lexical parent(item); on any *)
(* other Lstat error (a component of the parent that is no directory) the  *)
(* resolution is attempted, fails, and the item is rejected.               *)
(***************************************************************************)
C11_EffectiveDstDir ==
  /\ ResolvedDirAdopted
  /\ (last.op = "restore" /\ IsNotExist(Lstat(disk, LastDstDir))) =>
       (~last.rejected <=> DecisionOn(LastDstDir))
  /\ ( /\ last.op = "restore"
       /\ Lstat(disk, LastDstDir) # NoErr
       /\ ~IsNotExist(Lstat(disk, LastDstDir)) ) =>
         (LastEvalDstDir.err # NoErr /\ last.rejected)

C11_Witness ==
  /\ last.op = "restore"
  /\ last.node = SymlinkNode(RelPath(<<x>>))
  /\ Lstat(disk, LastDstDir) = NoErr
  /\ LastEvalDstDir.err = NoErr
  /\ LastEvalDstDir.path # LastDstDir
  /\ ~last.rejected
  /\ DecisionOn(LastEvalDstDir.path)
  /\ ~DecisionOn(LastDstDir)

====
